---- MODULE Spec2Model ----
(***************************************************************************)
(* The sample-size calculator of src/server/services/gemini.ts             *)
(* (calculateSampleSize and its helpers) as a state machine: a call is     *)
(* made with a parameter struct, one switch branch computes the per-group  *)
(* size, and the adjustment stage produces the returned result struct.     *)
(*                                                                         *)
(* Numbers.  A JavaScript number is modelled as a record                   *)
(*     [kind |-> "finite" | "Infinity" | "-Infinity" | "NaN", val |-> Int] *)
(* Real-valued quantities (effectSize, power, alpha, z-scores) are         *)
(* fixed-point with six decimals (val = value * Scale); the three sample   *)
(* sizes are integers (val = value).  Logarithms are carried with eight    *)
(* decimals (Fine).  Every product and quotient is rounded to the nearest  *)
(* unit, as IEEE arithmetic rounds to the nearest double.                  *)
(*                                                                         *)
(* Strings.  A testType is a sequence of one-character strings, so that    *)
(* toLowerCase() and includes() are computed character by character.       *)
(*                                                                         *)
(* The caller.  The handler of POST /api/sample-size/calculate in          *)
(* src/server/routes.ts receives a request body, rejects it or invokes the *)
(* engine with it, stores the calculation and answers with a status code.  *)
(*                                                                         *)
(* Storage.  MemStorage of src/server/storage.ts keeps one Map per kind of *)
(* record; StorageSpec makes create* calls on it, and ExportSpec follows   *)
(* the handler of POST /api/protocols/export, which reads and writes it.   *)
(***************************************************************************)
EXTENDS Integers, Sequences, FiniteSets, TLC

VARIABLES
    params,    \* the SampleSizeParams the engine was called with
    pc,        \* "called": the call is pending; "returned": result is set
    result,    \* the SampleSizeResult returned (NoResult while pending)
    cdfArgs,   \* arguments inverseNormalCDF was evaluated with in this call
    body,      \* req.body of the REST request (NoBody for a direct call)
    response,  \* what the REST handler answered (NoResponse: nothing yet)
    storage,   \* the MemStorage instance: its Maps of records
    issued,    \* number of identifiers randomUUID has returned
    log,       \* the create* calls made on storage, in order
    export     \* the POST /api/protocols/export request being handled

vars == <<params, pc, result, cdfArgs, body, response, storage, issued, log, export>>

-----------------------------------------------------------------------------
(* Bounds of the model *)

MaxGroups == 3           \* groups ranges over 1..MaxGroups, or is omitted
MaxEffectQuarters == 5   \* effectSize ranges over k/4, |k| <= MaxEffectQuarters
MaxRecords == 3          \* create* calls made on one MemStorage

-----------------------------------------------------------------------------
(* Fixed-point numbers *)

Scale == 10^6
Fine == 10^8

Fin(n) == [kind |-> "finite", val |-> n]
NaN == [kind |-> "NaN", val |-> 0]
Infinity == [kind |-> "Infinity", val |-> 0]
NegInfinity == [kind |-> "-Infinity", val |-> 0]

IsFinite(x) == x.kind = "finite"

\* An argument (effectSize, power, alpha, groups) is a six-decimal integer;
\* the argument NaN is the code NaNArg, outside the range of every value.
NaNArg == -(2^30)

AbsInt(n) == IF n < 0 THEN -n ELSE n
SgnInt(n) == IF n < 0 THEN -1 ELSE IF n > 0 THEN 1 ELSE 0

\* Products and quotients are formed without any intermediate exceeding 32
\* bits.  For a product a*b over d = Half * u (u dividing Half, a, b < 10^9)
\* the operands are split into halves of four decimal digits:
\* a*b = hi * Half^2 + mid * Half + lo.
Half == 10^4

SplitSum(hi, mid, lo, u) ==
    <<hi * (Half \div u) + (mid \div u) + (((mid % u) * Half + lo) \div (Half * u)),
      ((mid % u) * Half + lo) % (Half * u)>>

\* <<floor(a*b/d), (a*b) mod d>> for a, b >= 0 and d = Scale or d = Fine
MulDivQR(a, b, d) ==
    SplitSum((a \div Half) * (b \div Half),
             (a \div Half) * (b % Half) + (a % Half) * (b \div Half),
             (a % Half) * (b % Half),
             d \div Half)

\* The quotient of the pair qr, rounded to the nearest integer.
RoundQR(qr, d) == qr[1] + (IF 2 * qr[2] >= d THEN 1 ELSE 0)

\* Math.ceil of the quotient of the pair qr.
CeilQR(qr) == qr[1] + (IF qr[2] > 0 THEN 1 ELSE 0)

\* a*b/d rounded to the nearest integer (signed operands, d = Scale or Fine).
MulDiv(a, b, d) ==
    SgnInt(a) * SgnInt(b) * RoundQR(MulDivQR(AbsInt(a), AbsInt(b), d), d)

\* Product of two six-decimal numbers.
Mul(x, y) == MulDiv(x, y, Scale)

\* n/d rounded to the nearest integer (d > 0).
RoundDiv(n, d) == SgnInt(n) * RoundQR(<<AbsInt(n) \div d, AbsInt(n) % d>>, d)

\* Math.ceil of the rational a/d, d > 0.
CeilDiv(a, d) == -((-a) \div d)

\* Long division: from the pair qr = <<floor(n/d), n mod d>> the pair of
\* n * m^k over d, one factor m at a time (m * d < 2^31).
RECURSIVE ScaleQR(_, _, _, _)
ScaleQR(qr, m, k, d) ==
    IF qr[2] = 0 THEN <<qr[1] * m^k, 0>>
    ELSE IF k = 0 THEN qr
    ELSE ScaleQR(<<qr[1] * m + ((qr[2] * m) \div d), (qr[2] * m) % d>>, m, k - 1, d)

\* The pair of n * Fine over d for n >= 0 and 0 < d <= 3 * 10^8
\* (Fine = 4^4 * 5^8).
FineQR(n, d) == ScaleQR(ScaleQR(<<n \div d, n % d>>, 4, 4, d), 5, 8, d)

\* n/d in eight decimals, rounded to the nearest unit.
DivFine(n, d) == RoundQR(FineQR(n, d), d)

-----------------------------------------------------------------------------
(* Math.log on eight-decimal numbers *)

Ln2 == 69314718   \* ln 2, eight decimals

\* sum of pow/k + pow*y2/(k+2) + ... : the series of atanh, pow = y^k
RECURSIVE AtanhSeries(_, _, _)
AtanhSeries(pow, y2, k) ==
    IF pow = 0 THEN 0
    ELSE RoundDiv(pow, k) + AtanhSeries(MulDiv(pow, y2, Fine), y2, k + 2)

\* 2 atanh(y)
TwiceAtanh(y) == 2 * AtanhSeries(y, MulDiv(y, y, Fine), 1)

\* ln x for x > 0: x is scaled into [1, 2) by powers of two and
\* ln m = 2 atanh((m - 1)/(m + 1)).
RECURSIVE MathLog(_)
MathLog(x) ==
    IF x >= 2 * Fine THEN Ln2 + MathLog(x \div 2)
    ELSE IF x < Fine THEN MathLog(2 * x) - Ln2
    ELSE TwiceAtanh(DivFine(x - Fine, x + Fine))

\* Math.log as a number: NaN below 0 and -Infinity at 0
MathLogOf(x) ==
    IF x < 0 THEN NaN ELSE IF x = 0 THEN NegInfinity ELSE Fin(MathLog(x))

-----------------------------------------------------------------------------
(* Strings *)

UpperCase == <<"A","B","C","D","E","F","G","H","I","J","K","L","M",
               "N","O","P","Q","R","S","T","U","V","W","X","Y","Z">>
LowerCase == <<"a","b","c","d","e","f","g","h","i","j","k","l","m",
               "n","o","p","q","r","s","t","u","v","w","x","y","z">>

ToLowerChar(ch) ==
    IF \E i \in 1..Len(UpperCase) : UpperCase[i] = ch
    THEN LowerCase[CHOOSE i \in 1..Len(UpperCase) : UpperCase[i] = ch]
    ELSE ch

\* String.prototype.toLowerCase
ToLowerCase(s) == [i \in 1..Len(s) |-> ToLowerChar(s[i])]

\* String.prototype.includes
Includes(s, sub) ==
    \E i \in 0..(Len(s) - Len(sub)) :
        \A j \in 1..Len(sub) : s[i + j] = sub[j]

TwoSampleTTestName == <<"t","w","o","-","s","a","m","p","l","e"," ","t","-","t","e","s","t">>
IndependentTTestName == <<"i","n","d","e","p","e","n","d","e","n","t"," ","t","-","t","e","s","t">>
PairedTTestName == <<"p","a","i","r","e","d"," ","t","-","t","e","s","t">>
DependentTTestName == <<"d","e","p","e","n","d","e","n","t"," ","t","-","t","e","s","t">>
OneWayAnovaName == <<"o","n","e","-","w","a","y"," ","a","n","o","v","a">>
ProportionTestName == <<"p","r","o","p","o","r","t","i","o","n"," ","t","e","s","t">>
ChiSquareTestName == <<"c","h","i","-","s","q","u","a","r","e"," ","t","e","s","t">>
CorrelationTestName == <<"c","o","r","r","e","l","a","t","i","o","n"," ","t","e","s","t">>
PairedWord == <<"p","a","i","r","e","d">>

-----------------------------------------------------------------------------
(* inverseNormalCDF *)

\* The coefficient arrays, six decimals.  The source arrays are 0-based with
\* a leading 0 element; At(arr, i) is arr[i].
a == <<0, -39696830, 220946098, -275928510, 138357752, -30664798, 2506628>>
b == <<0, -54476099, 161585837, -155698980, 66801312, -13280682>>
c == <<0, -7785, -322396, -2400758, -2549733, 4374664, 2938164>>
d == <<0, 7785, 322467, 2445134, 3754409>>

At(arr, i) == arr[i + 1]

CentralLimit == 420000   \* 0.42

\* The four polynomials, in the source's Horner form.  PolyA and PolyB take
\* the six-decimal r = x * x, PolyC and PolyD the eight-decimal
\* r = log(-log(r0)).
PolyA(r) == Mul(Mul(Mul(At(a, 4), r) + At(a, 3), r) + At(a, 2), r) + At(a, 1)
PolyB(r) == Mul(Mul(Mul(Mul(At(b, 4), r) + At(b, 3), r) + At(b, 2), r) + At(b, 1), r) + Scale
PolyC(r) ==
    MulDiv(MulDiv(MulDiv(At(c, 4), r, Fine) + At(c, 3), r, Fine) + At(c, 2), r, Fine)
        + At(c, 1)
PolyD(r) == MulDiv(MulDiv(At(d, 4), r, Fine) + At(d, 3), r, Fine) + At(d, 2)

\* 0 / den, the value of the terms a[0] / (...) and c[0] / (...), whose
\* numerator is the arrays' leading 0: 0, or NaN when the divisor is 0.
ZeroOver(den) == IF den = 0 THEN NaN ELSE Fin(0)

\* v + w for an integer v and a number w
Plus(v, w) == IF IsFinite(w) THEN Fin(v + w.val) ELSE w

\* w * r for a number w and an eight-decimal r
TimesFine(w, r) == IF IsFinite(w) THEN Fin(MulDiv(w.val, r, Fine)) ELSE w

\* Operator precedence is that of the source expression
\*   x * (...a...) * r + a[0] / (...b...)
CentralRegion(x, r) == Plus(Mul(Mul(x, PolyA(r)), r), ZeroOver(PolyB(r)))

\* Operator precedence is that of the source expression
\*   (...c...) * r + c[0] / (...d...) * r + d[1] * r + 1
TailSum(r) ==
    Plus(MulDiv(PolyC(r), r, Fine) + MulDiv(At(d, 1), r, Fine) + Scale,
         TimesFine(ZeroOver(PolyD(r)), r))

\* if (x < 0) ret = -ret
SignedTail(x, ret) == IF x < 0 /\ IsFinite(ret) THEN Fin(-ret.val) ELSE ret

\* the tail for the number r = Math.log(-Math.log(r0))
TailRegion(x, r) == IF IsFinite(r) THEN SignedTail(x, TailSum(r.val)) ELSE NaN

\* p is a six-decimal probability.  The result is a six-decimal number or NaN.
\* In the tail r0 <= 0.08: Math.log(r0) is NaN for r0 < 0 and -Infinity for
\* r0 = 0; Math.log(Infinity) is Infinity and the term 0 * Infinity makes
\* the sum NaN.
inverseNormalCDF(p) ==
    LET x == p - Scale \div 2
        r0 == IF x > 0 THEN Scale - p ELSE p
    IN  IF p = NaNArg THEN NaN       \* every comparison with NaN is false
        ELSE IF AbsInt(x) < CentralLimit THEN CentralRegion(x, Mul(x, x))
        ELSE IF r0 <= 0 THEN NaN
        ELSE TailRegion(x, MathLogOf(-MathLog(100 * r0)))

\* Math.abs
MathAbs(x) == IF IsFinite(x) THEN Fin(AbsInt(x.val)) ELSE IF x.kind = "NaN" THEN NaN ELSE Infinity

-----------------------------------------------------------------------------
(* Z-score resolver.  A resolved z-score is [z |-> number, cdf |-> the       *)
(* sequence of arguments inverseNormalCDF was evaluated with to obtain it]. *)

\* p / 2 and 1 - power on arguments
HalfOf(p) == IF p = NaNArg THEN NaNArg ELSE p \div 2
OneMinus(power) == IF power = NaNArg THEN NaNArg ELSE Scale - power

Alpha05 == 50000
Alpha01 == 10000
Alpha001 == 1000
ZAlpha05 == 1960000
ZAlpha01 == 2576000
ZAlpha001 == 3291000

\* getZScore without the table entry for 0.001
getZScore_Missing001(p) ==
    IF p = Alpha05 THEN [z |-> Fin(ZAlpha05), cdf |-> <<>>]
    ELSE IF p = Alpha01 THEN [z |-> Fin(ZAlpha01), cdf |-> <<>>]
    ELSE [z |-> MathAbs(inverseNormalCDF(HalfOf(p))), cdf |-> <<HalfOf(p)>>]

\* getZScore without Math.abs
getZScore_NoAbs(p) ==
    IF p = Alpha05 THEN [z |-> Fin(ZAlpha05), cdf |-> <<>>]
    ELSE IF p = Alpha01 THEN [z |-> Fin(ZAlpha01), cdf |-> <<>>]
    ELSE IF p = Alpha001 THEN [z |-> Fin(ZAlpha001), cdf |-> <<>>]
    ELSE [z |-> inverseNormalCDF(HalfOf(p)), cdf |-> <<HalfOf(p)>>]

getZScore(p) ==
    IF p = Alpha05 THEN [z |-> Fin(ZAlpha05), cdf |-> <<>>]
    ELSE IF p = Alpha01 THEN [z |-> Fin(ZAlpha01), cdf |-> <<>>]
    ELSE IF p = Alpha001 THEN [z |-> Fin(ZAlpha001), cdf |-> <<>>]
    ELSE [z |-> MathAbs(inverseNormalCDF(HalfOf(p))), cdf |-> <<HalfOf(p)>>]

Power80 == 800000
Power90 == 900000
Power95 == 950000
ZPower80 == 842000
ZPower90 == 1282000
ZPower95 == 1645000

getPowerZScore(power) ==
    IF power = Power80 THEN [z |-> Fin(ZPower80), cdf |-> <<>>]
    ELSE IF power = Power90 THEN [z |-> Fin(ZPower90), cdf |-> <<>>]
    ELSE IF power = Power95 THEN [z |-> Fin(ZPower95), cdf |-> <<>>]
    ELSE [z |-> MathAbs(inverseNormalCDF(OneMinus(power))), cdf |-> <<OneMinus(power)>>]

-----------------------------------------------------------------------------
(* IEEE arithmetic on integers and quotients *)

\* CeilQuotient that answers 0 for a zero denominator
CeilQuotient_ZeroGuard(num, den) ==
    IF den = 0 THEN Fin(0)
    ELSE IF den > 0 THEN Fin(CeilDiv(num, den))
    ELSE Fin(CeilDiv(-num, -den))

\* Math.ceil(num / den) for integers num, den of one scale: division by
\* zero gives NaN (0/0) or an infinity.
CeilQuotient(num, den) ==
    IF den = 0
    THEN (IF num = 0 THEN NaN ELSE IF num > 0 THEN Infinity ELSE NegInfinity)
    ELSE IF den > 0 THEN Fin(CeilDiv(num, den))
    ELSE Fin(CeilDiv(-num, -den))

\* Math.pow(zAlpha + zBeta, 2), six decimals
SumSquared(za, zb) ==
    IF IsFinite(za) /\ IsFinite(zb) THEN Fin(Mul(za.val + zb.val, za.val + zb.val))
    ELSE NaN

\* x * k for a number x and an integer k
Times(x, k) ==
    IF k = NaNArg THEN NaN
    ELSE IF IsFinite(x) THEN Fin(x.val * k)
    ELSE IF x.kind = "NaN" \/ k = 0 THEN NaN
    ELSE IF (x.kind = "Infinity") = (k > 0) THEN Infinity
    ELSE NegInfinity

-----------------------------------------------------------------------------
(* The formula strings and assumption lists (transliterated to ASCII) *)

TwoSampleFormula == "n = 2 x (z_a/2 + z_b)^2 / d^2"
PairedFormula == "n = (z_a/2 + z_b)^2 / d^2"
AnovaFormula == "n = lambda / (k x f^2) where lambda is noncentrality parameter"
ProportionFormula == "n = 2 x p(1-p) x (z_a/2 + z_b)^2 / (p2-p1)^2"
CorrelationFormula == "n = (z_a/2 + z_b)^2 / z_r^2 + 3"

TwoSampleAssumptions ==
    <<"Normal distribution", "Equal variances", "Independent observations",
      "Continuous outcome variable">>
PairedAssumptions ==
    <<"Normal distribution of differences", "Paired observations",
      "Continuous outcome variable">>
AnovaAssumptions ==
    <<"Normal distribution within groups", "Equal variances (homoscedasticity)",
      "Independent observations", "Continuous outcome variable">>
ProportionAssumptions ==
    <<"Binary outcome variable", "Independent observations",
      "Adequate expected frequencies (>=5 per cell)">>
CorrelationAssumptions ==
    <<"Bivariate normal distribution", "Linear relationship",
      "Independent observations", "Continuous variables">>
DefaultAssumptions ==
    <<"Normal distribution", "Equal variances", "Independent observations">>

-----------------------------------------------------------------------------
(* The ANOVA helpers *)

FCritical05 == 3840000
FCritical01 == 6630000

getFCritical(alpha, df1, df2) ==
    IF alpha = Alpha05 /\ df1 = 1 THEN FCritical05
    ELSE IF alpha = Alpha01 /\ df1 = 1 THEN FCritical01
    ELSE FCritical05

\* The quotient 2 * (zAlpha + zBeta)^2 / (groups * effectSize^2) as
\* [num, den]; zAlpha and zBeta are the constants 1.96 and 0.842.  The
\* denominator is NaNArg when effectSize or groups is NaN, and a zero
\* denominator is the negative zero when groups is negative.
calculateANOVASampleSize(effectSize, power, alpha, groups) ==
    LET zAlpha == ZAlpha05
        zBeta == ZPower80
    IN  [num |-> 2 * Mul(zAlpha + zBeta, zAlpha + zBeta),
         den |-> IF effectSize = NaNArg \/ groups = NaNArg THEN NaNArg
                 ELSE groups * Mul(effectSize, effectSize),
         negZero |-> effectSize = 0 /\ groups # NaNArg /\ groups < 0]

-----------------------------------------------------------------------------
(* calculateSampleSize: the switch branches.  A branch yields the per-group *)
(* sampleSize, the formula string, the assumptions and the inverseNormalCDF *)
(* arguments evaluated on the way.                                          *)

DefaultGroups == 2

\* GroupsOf with a default of 1
GroupsOf_DefaultOne(p) == IF p.groups = <<>> THEN 1 ELSE p.groups[1]

\* GroupsOf with a default of 3
GroupsOf_DefaultThree(p) == IF p.groups = <<>> THEN 3 ELSE p.groups[1]

\* const { ..., groups = 2 } = params: p.groups is <<>> when omitted
GroupsOf(p) == IF p.groups = <<>> THEN DefaultGroups ELSE p.groups[1]

\* SwitchKey without toLowerCase()
SwitchKey_NoLowerCase(p) == p.testType

\* the switch key, testType.toLowerCase()
SwitchKey(p) == ToLowerCase(p.testType)

\* The z-scores a branch resolves: the squared sum and the inverseNormalCDF
\* arguments of the two resolver calls, alpha first.
Resolved(zAlpha, zBeta) ==
    [sq |-> SumSquared(zAlpha.z, zBeta.z), cdf |-> zAlpha.cdf \o zBeta.cdf]

Resolve(p) == Resolved(getZScore(p.alpha), getPowerZScore(p.power))

\* sq / f(effectSize) is NaN when sq or effectSize is NaN
Usable(sq, effectSize) == IsFinite(sq) /\ effectSize # NaNArg

BranchResult(sampleSize, formula, assumptions, cdf) ==
    [sampleSize |-> sampleSize, formula |-> formula, assumptions |-> assumptions,
     cdf |-> cdf]

\* TwoSampleSize without the factor 2
TwoSampleSize_NoFactor(sq, effectSize) ==
    IF Usable(sq, effectSize) THEN CeilQuotient(sq.val, Mul(effectSize, effectSize))
    ELSE NaN

\* Math.ceil(2 * Math.pow(zAlpha + zBeta, 2) / Math.pow(effectSize, 2))
TwoSampleSize(sq, effectSize) ==
    IF Usable(sq, effectSize) THEN CeilQuotient(2 * sq.val, Mul(effectSize, effectSize))
    ELSE NaN

TwoSampleResult(zs, p) ==
    BranchResult(TwoSampleSize(zs.sq, p.effectSize), TwoSampleFormula,
                 TwoSampleAssumptions, zs.cdf)

TwoSampleBranch(p) == TwoSampleResult(Resolve(p), p)

\* PairedSize multiplying by the squared effect size instead of dividing
PairedSize_TimesEffect(sq, effectSize) ==
    IF Usable(sq, effectSize) THEN Fin(CeilDiv(Mul(sq.val, Mul(effectSize, effectSize)), Scale))
    ELSE NaN

\* Math.ceil(Math.pow(zAlphaPaired + zBetaPaired, 2) / Math.pow(effectSize, 2))
PairedSize(sq, effectSize) ==
    IF Usable(sq, effectSize) THEN CeilQuotient(sq.val, Mul(effectSize, effectSize))
    ELSE NaN

PairedResult(zs, p) ==
    BranchResult(PairedSize(zs.sq, p.effectSize), PairedFormula, PairedAssumptions,
                 zs.cdf)

PairedBranch(p) == PairedResult(Resolve(p), p)

\* dfError = groups * (sampleSize - 1)
DfError(sampleSize, groups) ==
    Times(IF IsFinite(sampleSize) THEN Fin(sampleSize.val - 1) ELSE sampleSize, groups)

\* Math.ceil(calculateANOVASampleSize(...)) of the quotient q
AnovaSize(q) ==
    IF q.den = NaNArg THEN NaN
    ELSE IF q.negZero THEN NegInfinity
    ELSE CeilQuotient(q.num, q.den)

\* const fCritical = getFCritical(alpha, groups - 1, dfError)
AnovaFCritical(sampleSize, p) ==
    getFCritical(p.alpha, GroupsOf(p) - 1, DfError(sampleSize, GroupsOf(p)))

\* AnovaResult in which an F-critical value of 6.63 doubles the size
AnovaResult_UsesFCritical(sampleSize, fCritical) ==
    BranchResult(IF fCritical = FCritical01 THEN Times(sampleSize, 2) ELSE sampleSize,
                 AnovaFormula, AnovaAssumptions, <<>>)

\* fCritical is computed from the sample size and returned nowhere.
AnovaResult(sampleSize, fCritical) ==
    BranchResult(sampleSize, AnovaFormula, AnovaAssumptions, <<>>)

AnovaSized(sampleSize, p) == AnovaResult(sampleSize, AnovaFCritical(sampleSize, p))

AnovaBranch(p) ==
    AnovaSized(AnovaSize(calculateANOVASampleSize(p.effectSize, p.power, p.alpha,
                                                  GroupsOf(p))), p)

BaselineProportion == 500000

\* ProportionSize with the baseline variance p1 * (1 - p1) for the pooled one
ProportionSize_Unpooled(sq, effectSize) ==
    LET p1 == BaselineProportion
        p2 == p1 + effectSize
    IN  IF Usable(sq, effectSize)
        THEN CeilQuotient(Mul(Mul(2 * p1, Scale - p1), sq.val), Mul(p2 - p1, p2 - p1))
        ELSE NaN

\* Math.ceil(2 * pooledP * (1 - pooledP) * Math.pow(zAlphaProp + zBetaProp, 2)
\*           / Math.pow(p2 - p1, 2))
ProportionSize(sq, effectSize) ==
    LET p1 == BaselineProportion
        p2 == p1 + effectSize
        pooledP == (p1 + p2) \div 2
    IN  IF Usable(sq, effectSize)
        THEN CeilQuotient(Mul(Mul(2 * pooledP, Scale - pooledP), sq.val),
                          Mul(p2 - p1, p2 - p1))
        ELSE NaN

ProportionResult(zs, p) ==
    BranchResult(ProportionSize(zs.sq, p.effectSize), ProportionFormula,
                 ProportionAssumptions, zs.cdf)

ProportionBranch(p) == ProportionResult(Resolve(p), p)

\* 0.5 * Math.log((1 + r) / (1 - r)), eight decimals: (1 + r) / 0 is
\* Infinity for r = 1, the logarithm of 0 is -Infinity, of a negative NaN.
\* FisherZ without the denominator: 0.5 * Math.log(1 + r)
FisherZ_NumeratorOnly(r) ==
    IF r = NaNArg THEN NaN
    ELSE IF Scale + r = 0 THEN NegInfinity
    ELSE IF Scale + r < 0 THEN NaN
    ELSE Fin(RoundDiv(MathLog(100 * (Scale + r)), 2))

FisherZ(r) ==
    IF r = NaNArg THEN NaN
    ELSE IF Scale - r = 0 THEN Infinity
    ELSE IF Scale + r = 0 THEN NegInfinity
    ELSE IF (Scale + r < 0) # (Scale - r < 0) THEN NaN
    ELSE Fin(RoundDiv(MathLog(DivFine(Scale + r, Scale - r)), 2))

\* Math.ceil(sq / zR2 + 3) for a finite sq and the eight-decimal zR2
CeilOverSquare(sq, zR2) ==
    IF zR2 = 0 THEN (IF sq.val = 0 THEN NaN ELSE Infinity)
    ELSE Fin(CeilQR(ScaleQR(<<sq.val \div zR2, sq.val % zR2>>, 10, 2, zR2)) + 3)

\* CorrelationSize in which an infinite zR makes the size infinite
CorrelationSize_InfinitePropagates(sq, zR) ==
    IF ~IsFinite(sq) \/ zR.kind = "NaN" THEN NaN
    ELSE IF ~IsFinite(zR) THEN Infinity
    ELSE CeilOverSquare(sq, MulDiv(zR.val, zR.val, Fine))

\* CorrelationSize without the term + 3
CorrelationSize_NoOffset(sq, zR) ==
    IF ~IsFinite(sq) \/ zR.kind = "NaN" THEN NaN
    ELSE IF ~IsFinite(zR) THEN Fin(0)
    ELSE Plus(-3, CeilOverSquare(sq, MulDiv(zR.val, zR.val, Fine)))

\* Math.ceil(Math.pow(zAlphaCorr + zBetaCorr, 2) / Math.pow(zR, 2) + 3)
CorrelationSize(sq, zR) ==
    IF ~IsFinite(sq) \/ zR.kind = "NaN" THEN NaN
    ELSE IF ~IsFinite(zR) THEN Fin(3)            \* x / Infinity + 3
    ELSE CeilOverSquare(sq, MulDiv(zR.val, zR.val, Fine))

CorrelationResult(zs, p) ==
    BranchResult(CorrelationSize(zs.sq, FisherZ(p.effectSize)), CorrelationFormula,
                 CorrelationAssumptions, zs.cdf)

CorrelationBranch(p) == CorrelationResult(Resolve(p), p)

\* Math.ceil(2 * Math.pow(zAlphaDef + zBetaDef, 2) / Math.pow(effectSize, 2))
DefaultSize(sq, effectSize) ==
    IF Usable(sq, effectSize) THEN CeilQuotient(2 * sq.val, Mul(effectSize, effectSize))
    ELSE NaN

\* DefaultResult with the four assumptions of the two-sample branch
DefaultResult_TwoSampleAssumptions(zs, p) ==
    BranchResult(DefaultSize(zs.sq, p.effectSize), TwoSampleFormula,
                 TwoSampleAssumptions, zs.cdf)

DefaultResult(zs, p) ==
    BranchResult(DefaultSize(zs.sq, p.effectSize), TwoSampleFormula,
                 DefaultAssumptions, zs.cdf)

DefaultBranch(p) == DefaultResult(Resolve(p), p)

\* the two-sample case without its alias
TwoSampleLabels_NoAlias == {TwoSampleTTestName}

TwoSampleLabels == {TwoSampleTTestName, IndependentTTestName}
PairedLabels == {PairedTTestName, DependentTTestName}
AnovaLabels == {OneWayAnovaName}
ProportionLabels == {ProportionTestName, ChiSquareTestName}
CorrelationLabels == {CorrelationTestName}
CaseLabels ==
    TwoSampleLabels \cup PairedLabels \cup AnovaLabels \cup ProportionLabels
        \cup CorrelationLabels

\* switch (testType.toLowerCase())
Branch(p) ==
    LET key == SwitchKey(p)
    IN  CASE key \in TwoSampleLabels -> TwoSampleBranch(p)
          [] key \in PairedLabels -> PairedBranch(p)
          [] key \in AnovaLabels -> AnovaBranch(p)
          [] key \in ProportionLabels -> ProportionBranch(p)
          [] key \in CorrelationLabels -> CorrelationBranch(p)
          [] OTHER -> DefaultBranch(p)

-----------------------------------------------------------------------------
(* calculateSampleSize: the adjustment stage *)

DropoutTenths == 12   \* the factor 1.2, in tenths

\* testType.toLowerCase().includes('paired')
IsPairedName(testType) == Includes(ToLowerCase(testType), PairedWord)

\* TotalSampleSize that multiplies every design by groups
TotalSampleSize_AlwaysTimes(p, sampleSize) == Times(sampleSize, GroupsOf(p))

TotalSampleSize(p, sampleSize) ==
    IF IsPairedName(p.testType) THEN sampleSize ELSE Times(sampleSize, GroupsOf(p))

\* AdjustedSampleSize with Math.round for Math.ceil
AdjustedSampleSize_Round(total) ==
    IF IsFinite(total) THEN Fin((total.val * DropoutTenths + 5) \div 10) ELSE total

\* Math.ceil(totalSampleSize * 1.2)
AdjustedSampleSize(total) ==
    IF IsFinite(total) THEN Fin(CeilDiv(total.val * DropoutTenths, 10)) ELSE total

Result(br, totalSampleSize) ==
    [sampleSize |-> br.sampleSize,
     totalSampleSize |-> totalSampleSize,
     adjustedSampleSize |-> AdjustedSampleSize(totalSampleSize),
     formula |-> br.formula,
     assumptions |-> br.assumptions]

Adjust(p, br) == Result(br, TotalSampleSize(p, br.sampleSize))

calculateSampleSize(p) == Adjust(p, Branch(p))

-----------------------------------------------------------------------------
(* The calls the model makes *)

TwoSampleMixedCase == <<"T","w","o","-","S","a","m","p","l","e"," ","T","-","T","e","s","t">>
PairedUpperCase == <<"P","A","I","R","E","D"," ","T","-","T","E","S","T">>
DependentMixedCase == <<"D","e","p","e","n","d","e","n","t"," ","T","-","T","e","s","t">>
OneWayAnovaMixedCase == <<"O","n","e","-","W","a","y"," ","A","N","O","V","A">>
RegressionName == <<"r","e","g","r","e","s","s","i","o","n">>
PairedWilcoxonName == <<"P","a","i","r","e","d"," ","W","i","l","c","o","x","o","n">>

TestTypes ==
    {TwoSampleTTestName, TwoSampleMixedCase, IndependentTTestName,
     PairedTTestName, PairedUpperCase, DependentTTestName, DependentMixedCase,
     OneWayAnovaName, OneWayAnovaMixedCase, ProportionTestName, ChiSquareTestName,
     CorrelationTestName, RegressionName, PairedWilcoxonName}

EffectSizes == {k * (Scale \div 4) : k \in (-MaxEffectQuarters)..MaxEffectQuarters}
Alphas == {Alpha05, Alpha01, Alpha001, 100000, 200000}
Powers == {Power80, Power90, Power95, 700000, 930000}
GroupsChoices == {<<>>} \cup {<<g>> : g \in 1..MaxGroups}

ParamSet ==
    [testType : TestTypes, effectSize : EffectSizes, power : Powers,
     alpha : Alphas, groups : GroupsChoices]

NoResult == [sampleSize |-> NaN, totalSampleSize |-> NaN, adjustedSampleSize |-> NaN,
             formula |-> "", assumptions |-> <<>>]

\* A value of the JSON request body: its JavaScript type, its number (for a
\* number) and its characters (for a string).
JsUndefined == [type |-> "undefined", num |-> 0, text |-> <<>>]
JsNull == [type |-> "null", num |-> 0, text |-> <<>>]
JsString(t) == [type |-> "string", num |-> 0, text |-> t]
JsNumber(n) == [type |-> "number", num |-> n, text |-> <<>>]

-----------------------------------------------------------------------------
(* src/server/storage.ts: MemStorage.  A JavaScript Map iterates in the   *)
(* order its keys were first set, so a Map of records is the sequence of  *)
(* its values, each carrying its key in the field id.                     *)

\* !v
Falsy(v) ==
    \/ v.type \in {"undefined", "null"}
    \/ v.type = "string" /\ v.text = <<>>
    \/ v.type \in {"number", "boolean"} /\ v.num = 0

JsFalse == [type |-> "boolean", num |-> 0, text |-> <<>>]
JsTrue == [type |-> "boolean", num |-> 1, text |-> <<>>]

\* v || other
OrElse(v, other) == IF Falsy(v) THEN other ELSE v

DEFAULT_USER_ID == JsString(<<"d", "e", "f", "a", "u", "l", "t", "-", "u", "s", "e", "r">>)

\* new Map()
NewMap == <<>>

MapHas(map, id) == \E i \in 1..Len(map) : map[i].id = id

MapIndex(map, id) == CHOOSE i \in 1..Len(map) : map[i].id = id

\* map.set(id, value): a key already present keeps its place
MapSet(map, id, value) ==
    IF MapHas(map, id) THEN [map EXCEPT ![MapIndex(map, id)] = value]
    ELSE Append(map, value)

\* what map.get answers for a key that is not present
Undefined == [id |-> 0]

\* map.get(id)
MapGet(map, id) == IF MapHas(map, id) THEN map[MapIndex(map, id)] ELSE Undefined

\* Array.from(map.values()).filter(r => r.userId === userId)
ByUser(map, userId) == SelectSeq(map, LAMBDA r : r.userId = userId)

\* constructor()
NewStorage == [methods |-> NewMap, sampleSizeCalculations |-> NewMap, protocols |-> NewMap]

\* randomUUID() that answers the same identifier every time
randomUUID_Constant(n) == 1

\* randomUUID(): an identifier no earlier call returned; n is the number of
\* identifiers issued so far
randomUUID(n) == n + 1

\* the Method record createMethod builds
MethodRecord(insertMethod, id) ==
    [id |-> id,
     userId |-> OrElse(insertMethod.userId, DEFAULT_USER_ID),
     hypothesis |-> insertMethod.hypothesis,
     constraints |-> OrElse(insertMethod.constraints, JsNull),
     hypothesisId |-> OrElse(insertMethod.hypothesisId, JsNull),
     alternativeMethod |-> OrElse(insertMethod.alternativeMethod, JsNull),
     confidence |-> OrElse(insertMethod.confidence, JsNull)]

\* the SampleSizeCalculation record createSampleSizeCalculation builds
CalculationRecord(insertCalculation, id) ==
    [id |-> id,
     userId |-> OrElse(insertCalculation.userId, DEFAULT_USER_ID),
     testType |-> insertCalculation.testType,
     effectSize |-> insertCalculation.effectSize,
     power |-> insertCalculation.power,
     alpha |-> insertCalculation.alpha,
     sampleSize |-> insertCalculation.sampleSize,
     totalSampleSize |-> insertCalculation.totalSampleSize,
     adjustedSampleSize |-> insertCalculation.adjustedSampleSize,
     formula |-> insertCalculation.formula,
     assumptions |-> insertCalculation.assumptions]

\* the Protocol record createProtocol builds
ProtocolRecord(insertProtocol, id) ==
    [id |-> id,
     userId |-> OrElse(insertProtocol.userId, DEFAULT_USER_ID),
     methodIds |-> insertProtocol.methodIds,
     title |-> insertProtocol.title,
     format |-> insertProtocol.format,
     content |-> insertProtocol.content,
     includeCitations |-> OrElse(insertProtocol.includeCitations, JsNull),
     includeEquipment |-> OrElse(insertProtocol.includeEquipment, JsNull),
     includeCostEstimates |-> OrElse(insertProtocol.includeCostEstimates, JsNull)]

\* this.methods.set(id, method)
WithMethod(st, method) ==
    [st EXCEPT !.methods = MapSet(st.methods, method.id, method)]

\* this.sampleSizeCalculations.set(id, calculation)
WithCalculation(st, calculation) ==
    [st EXCEPT !.sampleSizeCalculations =
                   MapSet(st.sampleSizeCalculations, calculation.id, calculation)]

\* this.protocols.set(id, protocol)
WithProtocol(st, protocol) ==
    [st EXCEPT !.protocols = MapSet(st.protocols, protocol.id, protocol)]

\* getMethodsByUser(userId)
getMethodsByUser(st, userId) == ByUser(st.methods, userId)

\* getMethod(id)
getMethod(st, id) == MapGet(st.methods, id)

\* getSampleSizeCalculationsByUser(userId)
getSampleSizeCalculationsByUser(st, userId) == ByUser(st.sampleSizeCalculations, userId)

\* getProtocolsByUser(userId)
getProtocolsByUser(st, userId) == ByUser(st.protocols, userId)

\* one create* call: which Map it wrote, the argument and the identifier
Created(kind, insert, id) == [kind |-> kind, insert |-> insert, id |-> id]

\* createMethod(insertMethod)
createMethod(insertMethod) ==
    /\ storage' = WithMethod(storage, MethodRecord(insertMethod, randomUUID(issued)))
    /\ issued' = issued + 1
    /\ log' = Append(log, Created("method", insertMethod, randomUUID(issued)))

\* createSampleSizeCalculation(insertCalculation)
createSampleSizeCalculation(insertCalculation) ==
    /\ storage' = WithCalculation(storage,
                                  CalculationRecord(insertCalculation, randomUUID(issued)))
    /\ issued' = issued + 1
    /\ log' = Append(log, Created("calculation", insertCalculation, randomUUID(issued)))

\* createProtocol(insertProtocol)
createProtocol(insertProtocol) ==
    /\ storage' = WithProtocol(storage, ProtocolRecord(insertProtocol, randomUUID(issued)))
    /\ issued' = issued + 1
    /\ log' = Append(log, Created("protocol", insertProtocol, randomUUID(issued)))

\* no export request is being handled
NoExport == [pc |-> "none"]

-----------------------------------------------------------------------------
NoBody ==
    [testType |-> JsUndefined, effectSize |-> JsUndefined, power |-> JsUndefined,
     alpha |-> JsUndefined]
NoResponse == [status |-> 0, json |-> NoResult]

Init ==
    /\ params \in ParamSet
    /\ pc = "called"
    /\ result = NoResult
    /\ cdfArgs = <<>>
    /\ body = NoBody
    /\ response = NoResponse
    /\ storage = NewStorage
    /\ issued = 0
    /\ log = <<>>
    /\ export = NoExport

\* Return that throws a RangeError for a non-finite sampleSize
Return_ThrowsOnNonFinite(br) ==
    IF IsFinite(br.sampleSize)
    THEN /\ cdfArgs' = br.cdf
         /\ result' = Adjust(params, br)
         /\ pc' = "returned"
         /\ UNCHANGED <<params, body, response, storage, issued, log, export>>
    ELSE /\ pc' = "threw"
         /\ UNCHANGED <<params, result, cdfArgs, body, response, storage, issued, log, export>>

Return(br) ==
    /\ cdfArgs' = br.cdf
    /\ result' = Adjust(params, br)
    /\ pc' = "returned"
    /\ UNCHANGED <<params, body, response, storage, issued, log, export>>

TwoSampleCase ==
    /\ pc = "called"
    /\ SwitchKey(params) \in TwoSampleLabels
    /\ Return(TwoSampleBranch(params))

PairedCase ==
    /\ pc = "called"
    /\ SwitchKey(params) \in PairedLabels
    /\ Return(PairedBranch(params))

AnovaCase ==
    /\ pc = "called"
    /\ SwitchKey(params) \in AnovaLabels
    /\ Return(AnovaBranch(params))

ProportionCase ==
    /\ pc = "called"
    /\ SwitchKey(params) \in ProportionLabels
    /\ Return(ProportionBranch(params))

CorrelationCase ==
    /\ pc = "called"
    /\ SwitchKey(params) \in CorrelationLabels
    /\ Return(CorrelationBranch(params))

DefaultCase ==
    /\ pc = "called"
    /\ SwitchKey(params) \notin CaseLabels
    /\ Return(DefaultBranch(params))

Next ==
    \/ TwoSampleCase
    \/ PairedCase
    \/ AnovaCase
    \/ ProportionCase
    \/ CorrelationCase
    \/ DefaultCase

Spec == Init /\ [][Next]_vars

-----------------------------------------------------------------------------
(* Calls with degenerate arguments: NaN, zero, negative numbers and         *)
(* probabilities outside (0,1).                                             *)

EdgeTestTypes ==
    {TwoSampleTTestName, PairedUpperCase, OneWayAnovaName, ChiSquareTestName,
     CorrelationTestName, RegressionName}
EdgeEffectSizes ==
    {NaNArg, 0, Scale \div 2, -Scale, MaxEffectQuarters * (Scale \div 4)}
EdgeAlphas ==
    {NaNArg, -100000, 0, Alpha05, 100000, Scale, 1500000, 2 * Scale, 3 * Scale}
EdgePowers == {NaNArg, -500000, 0, Power80, 700000, Scale, 1500000}
EdgeGroups == {<<>>, <<NaNArg>>, <<-1>>, <<0>>, <<MaxGroups>>}

EdgeParamSet ==
    [testType : EdgeTestTypes, effectSize : EdgeEffectSizes, power : EdgePowers,
     alpha : EdgeAlphas, groups : EdgeGroups]

EdgeInit ==
    /\ params \in EdgeParamSet
    /\ pc = "called"
    /\ result = NoResult
    /\ cdfArgs = <<>>
    /\ body = NoBody
    /\ response = NoResponse
    /\ storage = NewStorage
    /\ issued = 0
    /\ log = <<>>
    /\ export = NoExport

EdgeSpec == EdgeInit /\ [][Next]_vars

-----------------------------------------------------------------------------
(* The REST handler: app.post("/api/sample-size/calculate", ...).  pc is   *)
(* "received" when the request arrives; the handler rejects it (400), or   *)
(* invokes the engine ("called", then "returned" by the engine's actions)  *)
(* and stores and sends the result ("responded", 200); an exception of the *)
(* engine is caught and answered with 500 ("threw").                       *)

NonNumericText == <<"a","b","c">>

BodyTestTypes ==
    {JsUndefined, JsString(<<>>), JsNumber(5)}
        \cup {JsString(t) : t \in EdgeTestTypes}
BodyEffectSizes ==
    {JsUndefined, JsNull, JsString(NonNumericText), JsNumber(0), JsNumber(Scale \div 2)}
BodyPowers ==
    {JsUndefined, JsNull, JsString(NonNumericText), JsNumber(Power80), JsNumber(700000)}
BodyAlphas ==
    {JsUndefined, JsNull, JsString(NonNumericText), JsNumber(Alpha05), JsNumber(100000)}

BodySet ==
    [testType : BodyTestTypes, effectSize : BodyEffectSizes, power : BodyPowers,
     alpha : BodyAlphas]

NoParams ==
    [testType |-> <<>>, effectSize |-> 0, power |-> 0, alpha |-> 0, groups |-> <<>>]

RECURSIVE Join(_)
\* strings.join("; ")
Join(strings) ==
    IF Len(strings) = 0 THEN ""
    ELSE IF Len(strings) = 1 THEN strings[1]
    ELSE strings[1] \o "; " \o Join(Tail(strings))

\* calculationData: the request's own values and the engine's result
CalculationData(req, res) ==
    [userId |-> DEFAULT_USER_ID,
     testType |-> req.testType,
     effectSize |-> req.effectSize,
     power |-> req.power,
     alpha |-> req.alpha,
     sampleSize |-> res.sampleSize,
     totalSampleSize |-> res.totalSampleSize,
     adjustedSampleSize |-> res.adjustedSampleSize,
     formula |-> res.formula,
     assumptions |-> Join(res.assumptions)]

\* { id: calculation.id, ...result }, the argument of res.json
WithId(id, res) ==
    [id |-> id,
     sampleSize |-> res.sampleSize,
     formula |-> res.formula,
     assumptions |-> res.assumptions,
     totalSampleSize |-> res.totalSampleSize,
     adjustedSampleSize |-> res.adjustedSampleSize]

\* a calculation an earlier request stored
PriorCalculation ==
    CalculationData([testType |-> JsString(TwoSampleTTestName), effectSize |-> JsNumber(Scale \div 2),
                     power |-> JsNumber(Power80), alpha |-> JsNumber(Alpha05)],
                    calculateSampleSize([testType |-> TwoSampleTTestName,
                                         effectSize |-> Scale \div 2, power |-> Power80,
                                         alpha |-> Alpha05, groups |-> <<>>]))

\* the storage a request finds: new, or holding the earlier calculation
FoundStorages ==
    {[storage |-> NewStorage, issued |-> 0, log |-> <<>>],
     [storage |-> WithCalculation(NewStorage,
                                  CalculationRecord(PriorCalculation, randomUUID(0))),
      issued |-> 1,
      log |-> <<Created("calculation", PriorCalculation, randomUUID(0))>>]}

HandlerInit ==
    /\ body \in BodySet
    /\ pc = "received"
    /\ params = NoParams
    /\ result = NoResult
    /\ cdfArgs = <<>>
    /\ response = NoResponse
    /\ \E found \in FoundStorages :
           /\ storage = found.storage
           /\ issued = found.issued
           /\ log = found.log
    /\ export = NoExport

\* MissingParameter that looks at testType only
MissingParameter_TestTypeOnly(req) == Falsy(req.testType)

\* !testType || effectSize === undefined || power === undefined
\*           || alpha === undefined
MissingParameter(req) ==
    \/ Falsy(req.testType)
    \/ req.effectSize.type = "undefined"
    \/ req.power.type = "undefined"
    \/ req.alpha.type = "undefined"

\* The number the engine's arithmetic makes of an argument that is not a
\* number: null converts to 0, and a string that is not numeric (the only
\* strings of BodySet) to NaN.  Neither equals an entry of the z tables.
ToNumber(v) ==
    IF v.type = "number" THEN v.num
    ELSE IF v.type = "null" THEN 0
    ELSE NaNArg

\* EngineArgs that passes groups: 3
EngineArgs_WithGroups(req) ==
    [testType |-> req.testType.text, effectSize |-> ToNumber(req.effectSize),
     power |-> ToNumber(req.power), alpha |-> ToNumber(req.alpha), groups |-> <<3>>]

\* { testType, effectSize, power, alpha }: groups is not passed
EngineArgs(req) ==
    [testType |-> req.testType.text, effectSize |-> ToNumber(req.effectSize),
     power |-> ToNumber(req.power), alpha |-> ToNumber(req.alpha), groups |-> <<>>]

\* return res.status(400).json(...)
RejectRequest ==
    /\ pc = "received"
    /\ MissingParameter(body)
    /\ pc' = "rejected"
    /\ response' = [status |-> 400, json |-> NoResult]
    /\ UNCHANGED <<params, result, cdfArgs, body, storage, issued, log, export>>

\* calculateSampleSize({ testType, effectSize, power, alpha })
InvokeEngine ==
    /\ pc = "received"
    /\ ~MissingParameter(body)
    /\ body.testType.type = "string"
    /\ params' = EngineArgs(body)
    /\ pc' = "called"
    /\ UNCHANGED <<result, cdfArgs, body, response, storage, issued, log, export>>

\* The engine is invoked with a testType that has no toLowerCase method:
\* the TypeError is caught and answered with 500.
InvokeEngineThrows ==
    /\ pc = "received"
    /\ ~MissingParameter(body)
    /\ body.testType.type # "string"
    /\ pc' = "threw"
    /\ response' = [status |-> 500, json |-> NoResult]
    /\ UNCHANGED <<params, result, cdfArgs, body, storage, issued, log, export>>

\* the record storage.createSampleSizeCalculation(calculationData) returns
StoredCalculation == CalculationRecord(CalculationData(body, result), randomUUID(issued))

\* await storage.createSampleSizeCalculation(calculationData) and
\* res.json({ id: calculation.id, ...result })
StoreAndRespond ==
    /\ pc = "returned"
    /\ body # NoBody
    /\ createSampleSizeCalculation(CalculationData(body, result))
    /\ pc' = "responded"
    /\ response' = [status |-> 200, json |-> WithId(StoredCalculation.id, result)]
    /\ UNCHANGED <<params, result, cdfArgs, body, export>>

HandlerNext ==
    \/ RejectRequest
    \/ InvokeEngine
    \/ InvokeEngineThrows
    \/ StoreAndRespond
    \/ Next

HandlerSpec == HandlerInit /\ [][HandlerNext]_vars

-----------------------------------------------------------------------------
(* MemStorage on its own: any sequence of create* calls.                    *)

OtherUser == JsString(<<"a", "n", "n">>)

\* the userId a create* call may carry: none, empty, the default, another
GivenUserIds == {JsUndefined, JsString(<<>>), DEFAULT_USER_ID, OtherUser}

MethodInserts ==
    [userId : GivenUserIds,
     hypothesis : {JsString(<<"h">>)},
     constraints : {JsUndefined},
     hypothesisId : {JsUndefined},
     alternativeMethod : {JsUndefined},
     confidence : {JsNumber(0), JsNumber(800000)}]

CalculationInserts ==
    {[PriorCalculation EXCEPT !.userId = u] : u \in {JsUndefined, OtherUser}}

ProtocolInserts ==
    [userId : {JsUndefined, OtherUser},
     methodIds : {<<1>>},
     title : {JsString(<<"T">>)},
     format : {JsString(<<"t", "x", "t">>)},
     content : {"content"},
     includeCitations : {JsFalse},
     includeEquipment : {JsUndefined},
     includeCostEstimates : {JsTrue}]

StorageInit ==
    /\ params = NoParams
    /\ pc = "idle"
    /\ result = NoResult
    /\ cdfArgs = <<>>
    /\ body = NoBody
    /\ response = NoResponse
    /\ storage = NewStorage
    /\ issued = 0
    /\ log = <<>>
    /\ export = NoExport

CreateMethod ==
    /\ issued < MaxRecords
    /\ \E insertMethod \in MethodInserts : createMethod(insertMethod)
    /\ UNCHANGED <<params, pc, result, cdfArgs, body, response, export>>

CreateSampleSizeCalculation ==
    /\ issued < MaxRecords
    /\ \E insertCalculation \in CalculationInserts :
           createSampleSizeCalculation(insertCalculation)
    /\ UNCHANGED <<params, pc, result, cdfArgs, body, response, export>>

CreateProtocol ==
    /\ issued < MaxRecords
    /\ \E insertProtocol \in ProtocolInserts : createProtocol(insertProtocol)
    /\ UNCHANGED <<params, pc, result, cdfArgs, body, response, export>>

StorageNext ==
    \/ CreateMethod
    \/ CreateSampleSizeCalculation
    \/ CreateProtocol

StorageSpec == StorageInit /\ [][StorageNext]_vars

-----------------------------------------------------------------------------
(* src/server/routes.ts: POST /api/protocols/export.  The handler awaits    *)
(* storage, the content generator and the exporter in turn; a request that  *)
(* stores a method may run between two of its steps.  What a call into      *)
(* another module answers is left open: it returns, or it throws and the    *)
(* catch clause answers 500.                                                *)

JsArray(items) == [type |-> "array", num |-> 0, text |-> <<>>, items |-> items]

TxtFormat == JsString(<<"t", "x", "t">>)

\* an identifier no method was stored under
UnknownId == 9

ExportMethodIds ==
    {JsUndefined, JsString(<<"1">>), JsArray(<<>>), JsArray(<<1>>), JsArray(<<UnknownId>>),
     JsArray(<<UnknownId, 1>>), JsArray(<<2, 1>>)}

ExportBodies ==
    [methodIds : ExportMethodIds,
     title : {JsUndefined, JsString(<<"T">>), JsNumber(42)},
     format : {JsString(<<>>), TxtFormat},
     includeCitations : {JsUndefined, JsTrue},
     includeEquipment : {JsUndefined},
     includeCostEstimates : {JsUndefined}]

ExportInit ==
    /\ params = NoParams
    /\ pc = "idle"
    /\ result = NoResult
    /\ cdfArgs = <<>>
    /\ body = NoBody
    /\ response = NoResponse
    /\ storage = NewStorage
    /\ issued = 0
    /\ log = <<>>
    /\ \E req \in ExportBodies :
           export = [pc |-> "received", req |-> req, validMethods |-> <<>>,
                     generated |-> <<>>, status |-> 0, error |-> ""]

\* methodData of POST /api/methods/recommend
MethodData ==
    [userId |-> DEFAULT_USER_ID,
     hypothesis |-> JsString(<<"h">>),
     constraints |-> JsUndefined,
     hypothesisId |-> JsUndefined,
     alternativeMethod |-> JsUndefined,
     confidence |-> JsNumber(800000)]

\* another request, POST /api/methods/recommend, stores its recommendation
RecommendMethod ==
    /\ issued < MaxRecords
    /\ createMethod(MethodData)
    /\ UNCHANGED <<params, pc, result, cdfArgs, body, response, export>>

\* !methodIds || !Array.isArray(methodIds) || methodIds.length === 0
NoMethodIds(req) ==
    IF Falsy(req.methodIds) \/ req.methodIds.type # "array" THEN TRUE
    ELSE Len(req.methodIds.items) = 0

\* !title || !format
NoTitleOrFormat(req) == Falsy(req.title) \/ Falsy(req.format)

\* the handler answers with this status and is done
Answer(at, status) == export' = [export EXCEPT !.pc = at, !.status = status]

\* catch (error): console.error("Protocol export error:", error) and
\* res.status(500).json(...)
Catch(error) == export' = [export EXCEPT !.pc = "failed", !.status = 500, !.error = error]

\* return res.status(400).json({ message: "At least one method ID is required" })
RejectMethodIds ==
    /\ export.pc = "received"
    /\ NoMethodIds(export.req)
    /\ Answer("rejected", 400)
    /\ UNCHANGED <<params, pc, result, cdfArgs, body, response, storage, issued, log>>

\* return res.status(400).json({ message: "Title and format are required" })
RejectTitleOrFormat ==
    /\ export.pc = "received"
    /\ ~NoMethodIds(export.req)
    /\ NoTitleOrFormat(export.req)
    /\ Answer("rejected", 400)
    /\ UNCHANGED <<params, pc, result, cdfArgs, body, response, storage, issued, log>>

\* methodIds.map(id => storage.getMethod(id))
LookedUp(st, ids) == [i \in 1..Len(ids) |-> getMethod(st, ids[i])]

\* methods.filter(m => m !== undefined)
ValidMethods(methods) == SelectSeq(methods, LAMBDA m : m # Undefined)

\* validMethods of the request, as storage stands
Found == ValidMethods(LookedUp(storage, export.req.methodIds.items))

\* return res.status(404).json({ message: "No valid methods found" })
NoValidMethods ==
    /\ export.pc = "received"
    /\ ~NoMethodIds(export.req)
    /\ ~NoTitleOrFormat(export.req)
    /\ Len(Found) = 0
    /\ Answer("notfound", 404)
    /\ UNCHANGED <<params, pc, result, cdfArgs, body, response, storage, issued, log>>

\* validMethods is not empty: generateProtocolContent(validMethods, ...) is
\* called
CallGenerateContent ==
    /\ export.pc = "received"
    /\ ~NoMethodIds(export.req)
    /\ ~NoTitleOrFormat(export.req)
    /\ Len(Found) > 0
    /\ export' = [export EXCEPT !.pc = "generating", !.validMethods = Found,
                                !.generated = Found]
    /\ UNCHANGED <<params, pc, result, cdfArgs, body, response, storage, issued, log>>

\* generateProtocolContent returns the content, and exportProtocol is called
ContentGenerated ==
    /\ export.pc = "generating"
    /\ export' = [export EXCEPT !.pc = "exporting"]
    /\ UNCHANGED <<params, pc, result, cdfArgs, body, response, storage, issued, log>>

\* generateProtocolContent throws: the catch clause answers 500
GenerateContentThrows ==
    /\ export.pc = "generating"
    /\ Catch("generateProtocolContent")
    /\ UNCHANGED <<params, pc, result, cdfArgs, body, response, storage, issued, log>>

\* exportProtocol returns the exported content
Exported ==
    /\ export.pc = "exporting"
    /\ export' = [export EXCEPT !.pc = "storing"]
    /\ UNCHANGED <<params, pc, result, cdfArgs, body, response, storage, issued, log>>

\* exportProtocol throws: the catch clause answers 500
ExportProtocolThrows ==
    /\ export.pc = "exporting"
    /\ Catch("exportProtocol")
    /\ UNCHANGED <<params, pc, result, cdfArgs, body, response, storage, issued, log>>

\* protocolRecord
ProtocolData(req, validMethods) ==
    [userId |-> DEFAULT_USER_ID,
     methodIds |-> req.methodIds.items,
     title |-> req.title,
     format |-> req.format,
     content |-> [title |-> req.title, methods |-> validMethods, content |-> "content"],
     includeCitations |-> OrElse(req.includeCitations, JsFalse),
     includeEquipment |-> OrElse(req.includeEquipment, JsFalse),
     includeCostEstimates |-> OrElse(req.includeCostEstimates, JsFalse)]

\* await storage.createProtocol(protocolRecord)
StoreProtocolRecord ==
    /\ export.pc = "storing"
    /\ createProtocol(ProtocolData(export.req, export.validMethods))
    /\ export' = [export EXCEPT !.pc = "sending"]
    /\ UNCHANGED <<params, pc, result, cdfArgs, body, response>>

\* getExportMimeType, getExportFilename, res.setHeader and res.send all
\* return: the export is sent
SendExport ==
    /\ export.pc = "sending"
    /\ Answer("sent", 200)
    /\ UNCHANGED <<params, pc, result, cdfArgs, body, response, storage, issued, log>>

\* one of getExportMimeType, getExportFilename, res.setHeader, res.send
\* throws: the catch clause answers 500, the record stays stored
SendExportThrows ==
    /\ export.pc = "sending"
    /\ Catch("send")
    /\ UNCHANGED <<params, pc, result, cdfArgs, body, response, storage, issued, log>>

ExportNext ==
    \/ RecommendMethod
    \/ RejectMethodIds
    \/ RejectTitleOrFormat
    \/ NoValidMethods
    \/ CallGenerateContent
    \/ ContentGenerated
    \/ GenerateContentThrows
    \/ Exported
    \/ ExportProtocolThrows
    \/ StoreProtocolRecord
    \/ SendExport
    \/ SendExportThrows

ExportSpec == ExportInit /\ [][ExportNext]_vars

-----------------------------------------------------------------------------
(* Properties *)

Done == pc = "returned"

GivenGroups == IF params.groups = <<>> THEN 2 ELSE params.groups[1]

CallIs(testType, effectSize, power, alpha, groups) ==
    params = [testType |-> testType, effectSize |-> effectSize, power |-> power,
              alpha |-> alpha, groups |-> groups]

\* x >= y on numbers: false when either is NaN
NumGe(x, y) ==
    /\ x.kind # "NaN"
    /\ y.kind # "NaN"
    /\ \/ x.kind = "Infinity"
       \/ y.kind = "-Infinity"
       \/ IsFinite(x) /\ IsFinite(y) /\ x.val >= y.val

InflationChain(res) ==
    /\ NumGe(res.adjustedSampleSize, res.totalSampleSize)
    /\ NumGe(res.totalSampleSize, res.sampleSize)
    /\ NumGe(res.sampleSize, Fin(1))

Sizes(res) == <<res.sampleSize, res.totalSampleSize, res.adjustedSampleSize>>

\* C1 (as stated): the two-sample t-test with alpha = 0.05, power = 0.80,
\* effectSize = 0.5 and groups = 2 returns sampleSize 64, totalSampleSize 128
\* and adjustedSampleSize 154.
C1_Original ==
    (Done /\ CallIs(TwoSampleTTestName, 500000, 800000, 50000, <<2>>))
        => Sizes(result) = <<Fin(64), Fin(128), Fin(154)>>

\* C1 (amended): the two-sample t-test with alpha = 0.05, power = 0.80,
\* effectSize = 0.5 and groups = 2 returns sampleSize 63
\* (= ceil(2 * 2.802^2 / 0.25) = ceil(62.81)), totalSampleSize 126 and
\* adjustedSampleSize 152 (= ceil(151.2)).
C1_Amended ==
    (Done /\ CallIs(TwoSampleTTestName, 500000, 800000, 50000, <<2>>))
        => Sizes(result) = <<Fin(63), Fin(126), Fin(152)>>

C1_Witness ==
    /\ Done
    /\ CallIs(TwoSampleTTestName, 500000, 800000, 50000, <<2>>)
    /\ result.sampleSize = Fin(63)
    /\ result.formula = TwoSampleFormula

\* C2: the paired t-test with alpha = 0.05, power = 0.80, effectSize = 0.5
\* and groups = 2 returns sampleSize 32, totalSampleSize 32 (not multiplied
\* by groups) and adjustedSampleSize 39.
C2_PairedExample ==
    (Done /\ CallIs(PairedTTestName, 500000, 800000, 50000, <<2>>))
        => Sizes(result) = <<Fin(32), Fin(32), Fin(39)>>

C2_Witness ==
    /\ Done
    /\ CallIs(PairedTTestName, 500000, 800000, 50000, <<2>>)
    /\ result.totalSampleSize = Fin(32)
    /\ result.formula = PairedFormula

\* the preconditions of C3: nonzero effect size, power and alpha in (0,1),
\* groups >= 1
C3_Precondition ==
    /\ Done
    /\ params.effectSize # 0
    /\ 0 < params.power /\ params.power < 1000000
    /\ 0 < params.alpha /\ params.alpha < 1000000
    /\ GivenGroups >= 1

\* C3: for every family, every nonzero effectSize, power and alpha in (0,1)
\* and groups >= 1, adjustedSampleSize >= totalSampleSize >= sampleSize >= 1.
C3_InflationChainHolds == C3_Precondition => InflationChain(result)

AlphaTable == {50000, 10000, 1000}
PowerTable == {800000, 900000, 950000}

\* the branches that resolve z-scores (all but the ANOVA branch)
UsesResolver == ToLowerCase(params.testType) # OneWayAnovaName

\* C4: the resolver returns exactly 1.96, 2.576, 3.291 for alpha = 0.05,
\* 0.01, 0.001 and exactly 0.842, 1.282, 1.645 for power = 0.80, 0.90,
\* 0.95, and evaluates inverseNormalCDF for none of these six inputs: a
\* call evaluates it exactly once per probability that is not in the table.
C4_TableHits ==
    /\ params.alpha = 50000 => getZScore(params.alpha) = [z |-> Fin(1960000), cdf |-> <<>>]
    /\ params.alpha = 10000 => getZScore(params.alpha) = [z |-> Fin(2576000), cdf |-> <<>>]
    /\ params.alpha = 1000 => getZScore(params.alpha) = [z |-> Fin(3291000), cdf |-> <<>>]
    /\ params.power = 800000 => getPowerZScore(params.power) = [z |-> Fin(842000), cdf |-> <<>>]
    /\ params.power = 900000 => getPowerZScore(params.power) = [z |-> Fin(1282000), cdf |-> <<>>]
    /\ params.power = 950000 => getPowerZScore(params.power) = [z |-> Fin(1645000), cdf |-> <<>>]
    /\ (Done /\ UsesResolver) =>
          Len(cdfArgs) = (IF params.alpha \in AlphaTable THEN 0 ELSE 1)
                         + (IF params.power \in PowerTable THEN 0 ELSE 1)

C4_Witness ==
    /\ Done
    /\ UsesResolver
    /\ params.alpha = 1000
    /\ params.power = 950000
    /\ params.effectSize # 0
    /\ cdfArgs = <<>>
    /\ IsFinite(result.sampleSize)

\* the four fields C5 compares
NumericAndFormula(res) ==
    <<res.sampleSize, res.totalSampleSize, res.adjustedSampleSize, res.formula>>

Recognized(testType) == ToLowerCase(testType) \in CaseLabels

\* C5: for every unrecognized testType the call returns the same sampleSize,
\* totalSampleSize, adjustedSampleSize and formula string as
\* "two-sample t-test" with the same numeric parameters.
C5_DefaultIsTwoSample ==
    (Done /\ ~Recognized(params.testType)) =>
        NumericAndFormula(result)
            = NumericAndFormula(calculateSampleSize(
                  [params EXCEPT !.testType = TwoSampleTTestName]))

\* C6: two testType strings that are equal after lower-casing give, with
\* the same numeric parameters, results identical in all five fields.
C6_CaseInsensitive ==
    Done =>
        \A other \in {t \in TestTypes : ToLowerCase(t) = ToLowerCase(params.testType)} :
            calculateSampleSize([params EXCEPT !.testType = other]) = result

C6_Witness ==
    /\ Done
    /\ params.testType = TwoSampleMixedCase
    /\ params.effectSize = 500000
    /\ result = calculateSampleSize([params EXCEPT !.testType = TwoSampleTTestName])
    /\ result.assumptions = TwoSampleAssumptions

\* C7: for every testType of the paired / dependent family, in any letter
\* case, totalSampleSize equals sampleSize.
C7_PairedFamilyNotMultiplied ==
    (Done /\ ToLowerCase(params.testType) \in {PairedTTestName, DependentTTestName})
        => result.totalSampleSize = result.sampleSize

\* sampleSize * g on the result's numbers
SizeTimes(n, g) ==
    IF IsFinite(n) THEN Fin(n.val * g) ELSE n

\* C8: when the lower-cased testType does not contain "paired",
\* totalSampleSize = sampleSize * groups, groups being 2 when omitted; when
\* it contains "paired", totalSampleSize = sampleSize.
C8_TotalBySubstring ==
    Done =>
        IF Includes(ToLowerCase(params.testType), PairedWord)
        THEN result.totalSampleSize = result.sampleSize
        ELSE result.totalSampleSize
                 = SizeTimes(result.sampleSize,
                             IF params.groups = <<>> THEN 2 ELSE params.groups[1])

C8_Witness ==
    /\ Done
    /\ params.groups = <<>>
    /\ ~Includes(ToLowerCase(params.testType), PairedWord)
    /\ IsFinite(result.sampleSize)
    /\ result.sampleSize.val > 0
    /\ result.totalSampleSize = Fin(2 * result.sampleSize.val)

\* C9: whenever totalSampleSize is finite, adjustedSampleSize is the
\* smallest integer that is at least 1.2 * totalSampleSize (6/5 of it),
\* for every family and every input.
C9_DropoutCeiling ==
    (Done /\ IsFinite(result.totalSampleSize)) =>
        /\ IsFinite(result.adjustedSampleSize)
        /\ 5 * result.adjustedSampleSize.val >= 6 * result.totalSampleSize.val
        /\ 5 * (result.adjustedSampleSize.val - 1) < 6 * result.totalSampleSize.val

C9_Witness ==
    /\ Done
    /\ result.totalSampleSize = Fin(126)
    /\ result.adjustedSampleSize = Fin(152)

\* C10: for "one-way anova", sampleSize = ceil(2 (z_alpha + z_beta)^2 /
\* (groups f^2)) with z_alpha and z_beta resolved from the call's own alpha
\* and power.
C10_AnovaUsesOwnZScores ==
    (Done /\ ToLowerCase(params.testType) = OneWayAnovaName /\ params.effectSize # 0) =>
        result.sampleSize
            = CeilQuotient(
                  2 * SumSquared(getZScore(params.alpha).z, getPowerZScore(params.power).z).val,
                  GivenGroups * Mul(params.effectSize, params.effectSize))

NonFinite(x) == x.kind \in {"Infinity", "-Infinity", "NaN"}

\* C11: for effectSize = 0 every family (the correlation family included,
\* where z_r = 0) returns a result whose sampleSize, totalSampleSize and
\* adjustedSampleSize are all non-finite (an infinity or NaN).
C11_ZeroEffectNonFinite ==
    (Done /\ params.effectSize = 0) =>
        /\ NonFinite(result.sampleSize)
        /\ NonFinite(result.totalSampleSize)
        /\ NonFinite(result.adjustedSampleSize)
        /\ result.formula # ""

C11_Witness ==
    /\ Done
    /\ params.effectSize = 0
    /\ ToLowerCase(params.testType) = CorrelationTestName
    /\ FisherZ(params.effectSize) = Fin(0)
    /\ Sizes(result) = <<Infinity, Infinity, Infinity>>

\* the case of C12: the correlation test with r = 1 or r = -1 and alpha,
\* power in (0,1)
C12_PerfectCorrelation ==
    /\ Done
    /\ ToLowerCase(params.testType) = CorrelationTestName
    /\ params.effectSize \in {Scale, -Scale}
    /\ 0 < params.alpha /\ params.alpha < Scale
    /\ 0 < params.power /\ params.power < Scale

\* C12 (as stated): for "correlation test" with effectSize = 1 or -1 and
\* alpha, power in (0,1) the returned sampleSize is non-finite.
C12_Original == C12_PerfectCorrelation => NonFinite(result.sampleSize)

\* C12 (amended): for "correlation test" with effectSize = 1 or -1 and
\* alpha, power in (0,1) the infinity stays inside z_r: z_r is +Infinity or
\* -Infinity, (z_alpha + z_beta)^2 / z_r^2 is 0, and the returned sampleSize
\* is the finite value 3 whenever the two z-scores are finite (NaN
\* otherwise); it is never infinite.
C12_Amended ==
    C12_PerfectCorrelation =>
        /\ ~IsFinite(FisherZ(params.effectSize))
        /\ result.sampleSize = (IF IsFinite(Resolve(params).sq) THEN Fin(3) ELSE NaN)

C12_Witness ==
    /\ C12_PerfectCorrelation
    /\ params.effectSize = -Scale
    /\ FisherZ(params.effectSize) = NegInfinity
    /\ result.sampleSize = Fin(3)

JSNumbers ==
    {NaN, Infinity, NegInfinity} \cup [kind : {"finite"}, val : Int]

\* a SampleSizeResult: three numbers, a formula string and a list of
\* assumptions
IsResultStruct(res) ==
    /\ DOMAIN res = {"sampleSize", "totalSampleSize", "adjustedSampleSize",
                     "formula", "assumptions"}
    /\ res.sampleSize \in JSNumbers
    /\ res.totalSampleSize \in JSNumbers
    /\ res.adjustedSampleSize \in JSNumbers
    /\ res.formula \in {TwoSampleFormula, PairedFormula, AnovaFormula,
                         ProportionFormula, CorrelationFormula}
    /\ Len(res.assumptions) >= 3

EngineInvoked == pc \in {"called", "returned", "responded", "threw"}

\* C15: the REST handler invokes calculateSampleSize only with a string
\* testType and with effectSize, power and alpha that are finite numbers; a
\* request in which one of them is a string, null or non-finite never
\* reaches the engine.
C15_OnlyFiniteNumbersReachEngine ==
    EngineInvoked =>
        /\ body.testType.type = "string"
        /\ body.effectSize.type = "number"
        /\ body.power.type = "number"
        /\ body.alpha.type = "number"

\* the call's result had its testType been other
ResultFor(other) == calculateSampleSize([params EXCEPT !.testType = other])

SizeFormulaAssumptions(res) == <<res.sampleSize, res.formula, res.assumptions>>

\* C16: aliases of one family are interchangeable: "independent t-test"
\* returns the same five result fields as "two-sample t-test",
\* "chi-square test" the same five as "proportion test", and
\* "dependent t-test" the same sampleSize, formula and assumptions as
\* "paired t-test", for all numeric parameters.
C16_AliasesInterchangeable ==
    Done =>
        /\ params.testType = IndependentTTestName
                => result = ResultFor(TwoSampleTTestName)
        /\ params.testType = ChiSquareTestName
                => result = ResultFor(ProportionTestName)
        /\ params.testType = DependentTTestName
                => SizeFormulaAssumptions(result)
                       = SizeFormulaAssumptions(ResultFor(PairedTTestName))

C16_Witness ==
    /\ Done
    /\ params.testType = DependentTTestName
    /\ params.effectSize = Scale \div 2
    /\ params.groups = <<3>>
    /\ result.formula = PairedFormula
    /\ result.sampleSize = ResultFor(PairedTTestName).sampleSize
    /\ result.totalSampleSize # ResultFor(PairedTTestName).totalSampleSize

\* (z_alpha + z_beta)^2 of the call
ZSumSquared == SumSquared(getZScore(params.alpha).z, getPowerZScore(params.power).z)

\* ceil(2 pbar (1 - pbar) sq / e^2)
PooledSize(pbar, sq, e) ==
    CeilQuotient(Mul(Mul(2 * pbar, Scale - pbar), sq.val), Mul(e, e))

\* C17: for the proportion / chi-square family the baseline proportion is
\* always 0.5 and the second proportion 0.5 + effectSize, so sampleSize =
\* ceil(2 pbar (1 - pbar) (z_alpha + z_beta)^2 / effectSize^2) with
\* pbar = 0.5 + effectSize / 2, for every effectSize, alpha, power and
\* groups.
C17_ProportionBaselineHalf ==
    (Done /\ ToLowerCase(params.testType) \in {ProportionTestName, ChiSquareTestName}) =>
        /\ result.formula = ProportionFormula
        /\ result.sampleSize
               = PooledSize(500000 + params.effectSize \div 2, ZSumSquared,
                            params.effectSize)

C17_Witness ==
    /\ Done
    /\ params.testType = ChiSquareTestName
    /\ params.effectSize = Scale \div 4
    /\ params.alpha = Alpha05
    /\ params.power = Power80
    /\ result.sampleSize = Fin(59)

\* the case of C18: the correlation test with r in (-1,1), r # 0, and
\* alpha, power in (0,1)
C18_ProperCorrelation ==
    /\ Done
    /\ ToLowerCase(params.testType) = CorrelationTestName
    /\ params.effectSize # 0
    /\ -Scale < params.effectSize /\ params.effectSize < Scale
    /\ 0 < params.alpha /\ params.alpha < Scale
    /\ 0 < params.power /\ params.power < Scale

\* ceil(sq / zR^2 + 3) for the finite Fisher z of r
FisherSize(sq, zR) == CeilOverSquare(sq, MulDiv(zR.val, zR.val, Fine))

\* C18: for the correlation family sampleSize = ceil((z_alpha + z_beta)^2 /
\* z_r^2 + 3) with z_r = 0.5 ln((1 + r) / (1 - r)) and r = effectSize;
\* consequently for every r in (-1,1) with r # 0 and alpha, power in (0,1)
\* the returned sampleSize is at least 3.
C18_CorrelationAtLeastThree ==
    C18_ProperCorrelation =>
        /\ result.formula = CorrelationFormula
        /\ result.sampleSize = FisherSize(ZSumSquared, FisherZ(params.effectSize))
        /\ NumGe(result.sampleSize, Fin(3))

C18_Witness ==
    /\ C18_ProperCorrelation
    /\ params.effectSize = -(Scale \div 2)
    /\ params.alpha = Alpha05
    /\ params.power = Power80
    /\ FisherZ(params.effectSize).val \in (-54930616)..(-54930613)   \* -0.54930614
    /\ result.sampleSize = Fin(30)

\* the values getFCritical can return
FCriticalValues == {FCritical05, FCritical01}

\* the per-group size of the ANOVA branch for the call's parameters
AnovaSizeOfCall ==
    AnovaSize(calculateANOVASampleSize(params.effectSize, params.power, params.alpha,
                                       GroupsOf(params)))

\* C19: in the one-way ANOVA branch the F-critical value never feeds back:
\* for fixed effectSize, power, alpha and groups the returned sampleSize,
\* totalSampleSize and adjustedSampleSize are the same whatever value
\* getFCritical returns (3.84, 6.63 or the 3.84 default).
C19_FCriticalUnused ==
    (Done /\ ToLowerCase(params.testType) = OneWayAnovaName) =>
        /\ AnovaFCritical(result.sampleSize, params) \in FCriticalValues
        /\ \A f \in FCriticalValues :
               Sizes(Adjust(params, AnovaResult(AnovaSizeOfCall, f))) = Sizes(result)

C19_Witness ==
    /\ Done
    /\ params.testType = OneWayAnovaName
    /\ params.alpha = Alpha01
    /\ params.groups = <<2>>
    /\ params.effectSize = Scale \div 2
    /\ AnovaFCritical(result.sampleSize, params) = FCritical01
    /\ Sizes(result) = <<Fin(32), Fin(64), Fin(77)>>

\* the call's result had its groups been g (<<>>: omitted)
ResultWithGroups(g) == calculateSampleSize([params EXCEPT !.groups = g])

\* C20: groups influences only the ANOVA per-group size and the total
\* multiplier: for every non-ANOVA family sampleSize, formula and
\* assumptions are the same for all values of groups (each call agrees
\* with the call that omits groups), and a call that omits groups returns
\* the same result as the same call with groups = 2.
C20_GroupsOnlyAnovaAndTotal ==
    Done =>
        /\ ToLowerCase(params.testType) # OneWayAnovaName
                => SizeFormulaAssumptions(result)
                       = SizeFormulaAssumptions(ResultWithGroups(<<>>))
        /\ params.groups = <<>> => result = ResultWithGroups(<<2>>)

C20_Witness ==
    /\ Done
    /\ params.testType = CorrelationTestName
    /\ params.groups = <<3>>
    /\ params.effectSize = Scale \div 2
    /\ IsFinite(result.sampleSize)
    /\ SizeFormulaAssumptions(result) = SizeFormulaAssumptions(ResultWithGroups(<<>>))
    /\ result.totalSampleSize # ResultWithGroups(<<>>).totalSampleSize

\* the formula string and the assumptions of the family of a lower-cased
\* testType
FamilyText(key) ==
    CASE key \in {TwoSampleTTestName, IndependentTTestName}
             -> <<TwoSampleFormula, TwoSampleAssumptions>>
      [] key \in {PairedTTestName, DependentTTestName}
             -> <<PairedFormula, PairedAssumptions>>
      [] key = OneWayAnovaName -> <<AnovaFormula, AnovaAssumptions>>
      [] key \in {ProportionTestName, ChiSquareTestName}
             -> <<ProportionFormula, ProportionAssumptions>>
      [] key = CorrelationTestName -> <<CorrelationFormula, CorrelationAssumptions>>
      [] OTHER -> <<TwoSampleFormula,
                    <<"Normal distribution", "Equal variances",
                      "Independent observations">> >>

\* C21: the formula string and the ordered assumptions list are fixed per
\* family: they depend only on the lower-cased testType, never on
\* effectSize, power, alpha or groups; the default family returns the
\* two-sample formula string with exactly the three assumptions normal
\* distribution, equal variances, independent observations, in that order.
C21_TextFixedPerFamily ==
    Done => <<result.formula, result.assumptions>> = FamilyText(ToLowerCase(params.testType))

C21_Witness ==
    /\ Done
    /\ params.testType = RegressionName
    /\ params.effectSize = 0
    /\ params.groups = <<3>>
    /\ result.formula = TwoSampleFormula
    /\ Len(result.assumptions) = 3
    /\ result.assumptions[2] = "Equal variances"

\* |x - exact| <= exact / 1000, six decimals
WithinThousandth(x, exact) ==
    IsFinite(x) /\ 1000 * AbsInt(x.val - exact) <= exact

\* C22: for a power that is not in the lookup table and whose
\* approximation argument lies in the central region (|p - 0.5| < 0.42),
\* the resolver returns the standard-normal quantile magnitude
\* |Phi^-1(1 - power)| with relative error at most 1e-3: 0.5244 for power
\* 0.70 and 0.2533 for power 0.60.
C22_CentralRegionAccurate ==
    /\ params.power = 700000
           => WithinThousandth(getPowerZScore(params.power).z, 524401)
    /\ params.power = 600000
           => WithinThousandth(getPowerZScore(params.power).z, 253347)

\* x is a magnitude: NaN, or at least 0
NonNegativeIfFinite(x) == IsFinite(x) => x.val >= 0

\* |v| for a number v that is finite or NaN
Magnitude(v) == IF IsFinite(v) THEN Fin(AbsInt(v.val)) ELSE v

\* C23: for every alpha outside {0.05, 0.01, 0.001} the alpha z-score is
\* |inverseNormalCDF(alpha / 2)| and for every power outside {0.8, 0.9,
\* 0.95} the power z-score is |inverseNormalCDF(1 - power)|; both resolved
\* z-scores are non-negative whenever finite, for every input.
C23_ZScoresAreMagnitudes ==
    /\ params.alpha \notin AlphaTable
           => getZScore(params.alpha).z
                  = Magnitude(inverseNormalCDF(HalfOf(params.alpha)))
    /\ params.power \notin PowerTable
           => getPowerZScore(params.power).z
                  = Magnitude(inverseNormalCDF(OneMinus(params.power)))
    /\ NonNegativeIfFinite(getZScore(params.alpha).z)
    /\ NonNegativeIfFinite(getPowerZScore(params.power).z)

C23_Witness ==
    /\ Done
    /\ UsesResolver
    /\ params.alpha = 1500000
    /\ params.power = 700000
    /\ cdfArgs = <<750000, 300000>>
    /\ IsFinite(inverseNormalCDF(750000))
    /\ inverseNormalCDF(750000).val < 0
    /\ getZScore(params.alpha).z = Fin(-inverseNormalCDF(750000).val)

\* the call's result had its effectSize been e
ResultWithEffect(e) == calculateSampleSize([params EXCEPT !.effectSize = e])

\* C24: for every family and every alpha, power and groups the call returns
\* identical results for effectSize = e and effectSize = -e.
C24_EffectSignIrrelevant ==
    Done => result = ResultWithEffect(-params.effectSize)

C24_Witness ==
    /\ Done
    /\ params.testType = ProportionTestName
    /\ params.effectSize = -(Scale \div 4)
    /\ params.alpha = Alpha05
    /\ params.power = Power80
    /\ result.sampleSize = Fin(59)
    /\ result = ResultWithEffect(Scale \div 4)

\* the call's result had its power been q
ResultWithPower(q) == calculateSampleSize([params EXCEPT !.power = q])

\* C25: for fixed testType, alpha, effectSize # 0 and groups the returned
\* sampleSize is non-decreasing in power over (0.5, 1): a larger power never
\* gives a smaller sampleSize, also when one of the two powers is a table
\* hit and the other goes through inverseNormalCDF.
C25_MonotoneInPower ==
    (Done /\ params.effectSize # 0 /\ 500000 < params.power /\ params.power < Scale) =>
        \A q \in {q \in Powers : params.power < q /\ q < Scale} :
            NumGe(ResultWithPower(q).sampleSize, result.sampleSize)

\* the families whose sampleSize divides by the squared effect size
InverseSquareFamily ==
    SwitchKey(params) \notin (ProportionLabels \cup CorrelationLabels)

Incomplete(req) ==
    \/ req.testType.type = "undefined"
    \/ req.testType = JsString(<<>>)
    \/ req.effectSize.type = "undefined"
    \/ req.power.type = "undefined"
    \/ req.alpha.type = "undefined"

Calculations == storage.sampleSizeCalculations

\* the step appends one calculation record and answers 200 with its id and
\* the engine's result
StoresOneAndAnswers ==
    /\ pc' = "responded"
    /\ Len(Calculations') = Len(Calculations) + 1
    /\ SubSeq(Calculations', 1, Len(Calculations)) = Calculations
    /\ storage'.methods = storage.methods
    /\ storage'.protocols = storage.protocols
    /\ response'.status = 200
    /\ response'.json.id = Calculations'[Len(Calculations')].id
    /\ \A i \in 1..Len(Calculations) : Calculations[i].id # response'.json.id
    /\ response'.json.sampleSize = result.sampleSize
    /\ response'.json.totalSampleSize = result.totalSampleSize
    /\ response'.json.adjustedSampleSize = result.adjustedSampleSize
    /\ response'.json.formula = result.formula
    /\ response'.json.assumptions = result.assumptions

\* C27: POST /api/sample-size/calculate answers 400 without invoking the
\* engine or storing anything when testType is missing or empty or one of
\* effectSize, power, alpha is undefined; otherwise, once the engine has
\* returned, exactly one calculation record is stored for the request and
\* the response carries that record's id with the engine's result fields.
C27_RejectOrStoreOnce ==
    [][/\ (pc = "received" /\ Incomplete(body)) =>
              /\ pc' = "rejected"
              /\ response'.status = 400
              /\ result' = NoResult
              /\ params' = NoParams
       /\ (pc = "returned" /\ body # NoBody) => StoresOneAndAnswers
       /\ (pc # "returned") => storage' = storage]_vars

C27_Witness ==
    /\ pc = "responded"
    /\ body.testType = JsString(TwoSampleTTestName)
    /\ body.effectSize = JsNumber(Scale \div 2)
    /\ body.power = JsNumber(Power80)
    /\ body.alpha = JsNumber(Alpha05)
    /\ Len(Calculations) = 2
    /\ response = [status |-> 200, json |-> WithId(2, result)]
    /\ Calculations[2].id = 2
    /\ Calculations[2].sampleSize = Fin(63)
    /\ Calculations[2].userId = DEFAULT_USER_ID
    /\ Calculations[2].testType = body.testType

\* C28: the REST handler never passes groups to the engine, so every
\* calculation made through POST /api/sample-size/calculate uses groups = 2:
\* totalSampleSize is 2 x sampleSize for every test type that is not paired
\* (one-way ANOVA included) and sampleSize for a test type that contains
\* "paired" in lower case.
C28_HandlerUsesTwoGroups ==
    (body # NoBody /\ pc \in {"called", "returned", "responded"}) =>
        /\ params.groups = <<>>
        /\ pc # "called" =>
               result.totalSampleSize =
                   IF Includes(ToLowerCase(body.testType.text), PairedWord)
                   THEN result.sampleSize
                   ELSE Times(result.sampleSize, 2)

C28_Witness ==
    /\ pc = "responded"
    /\ body.testType = JsString(OneWayAnovaName)
    /\ body.effectSize = JsNumber(Scale \div 2)
    /\ params.groups = <<>>
    /\ result.sampleSize = Fin(32)
    /\ result.totalSampleSize = Fin(64)
    /\ response.json.totalSampleSize = Fin(64)

UserIds == {DEFAULT_USER_ID, OtherUser, JsString(<<>>)}

\* the user a create* call was made for: the default user when the call
\* gave none (no userId, or an empty one)
UserOf(call) ==
    IF call.insert.userId \in {JsUndefined, JsString(<<>>)} THEN DEFAULT_USER_ID
    ELSE call.insert.userId

\* the create* calls of one kind, and those made for one user
CallsOfKind(kind) == SelectSeq(log, LAMBDA call : call.kind = kind)
CallsOf(kind, u) == SelectSeq(log, LAMBDA call : call.kind = kind /\ UserOf(call) = u)

\* records are, one for one and in order, what the calls created
Agree(records, calls) ==
    /\ Len(records) = Len(calls)
    /\ \A i \in 1..Len(records) :
           /\ records[i].id = calls[i].id
           /\ records[i].userId = UserOf(calls[i])

DistinctIds(records) ==
    \A i, j \in 1..Len(records) : i # j => records[i].id # records[j].id

\* getMethod(id) is the record a createMethod call made with that id, or
\* undefined when there was no such call
GetMethodRight(id) ==
    \/ \E i \in 1..Len(log) :
           /\ log[i].kind = "method"
           /\ log[i].id = id
           /\ getMethod(storage, id).id = id
           /\ getMethod(storage, id).userId = UserOf(log[i])
           /\ getMethod(storage, id).hypothesis = log[i].insert.hypothesis
    \/ /\ \A i \in 1..Len(log) : ~(log[i].kind = "method" /\ log[i].id = id)
       /\ getMethod(storage, id) = Undefined

UserPartitioned ==
    /\ \A u \in UserIds :
           /\ Agree(getMethodsByUser(storage, u), CallsOf("method", u))
           /\ Agree(getSampleSizeCalculationsByUser(storage, u), CallsOf("calculation", u))
           /\ Agree(getProtocolsByUser(storage, u), CallsOf("protocol", u))
    /\ Agree(storage.methods, CallsOfKind("method"))
    /\ Agree(storage.sampleSizeCalculations, CallsOfKind("calculation"))
    /\ Agree(storage.protocols, CallsOfKind("protocol"))
    /\ DistinctIds(storage.methods \o storage.sampleSizeCalculations \o storage.protocols)
    /\ \A id \in 0..(MaxRecords + 2) : GetMethodRight(id)

IsPrefix(old, new) == Len(old) <= Len(new) /\ SubSeq(new, 1, Len(old)) = old

AppendOnly ==
    /\ IsPrefix(storage.methods, storage'.methods)
    /\ IsPrefix(storage.sampleSizeCalculations, storage'.sampleSizeCalculations)
    /\ IsPrefix(storage.protocols, storage'.protocols)

\* C29: MemStorage is append-only and user-partitioned: after any sequence
\* of create* calls each get*ByUser(u) returns exactly the records of that
\* kind created with userId u ("default-user" when none was given), in
\* creation order and with distinct ids; no operation removes or alters a
\* stored record; getMethod(id) returns the record created with that id or
\* undefined.
C29_AppendOnlyPartitioned == [](UserPartitioned) /\ [][AppendOnly]_vars

C29_Witness ==
    /\ Len(log) = 3
    /\ log[1].kind = "method" /\ log[1].insert.userId = JsUndefined
    /\ log[2].kind = "method" /\ log[2].insert.userId = OtherUser
    /\ log[3].kind = "method" /\ log[3].insert.userId = JsString(<<>>)
    /\ Len(getMethodsByUser(storage, DEFAULT_USER_ID)) = 2
    /\ getMethodsByUser(storage, DEFAULT_USER_ID)[2].id = 3
    /\ getMethodsByUser(storage, OtherUser)[1].id = 2
    /\ getMethod(storage, 2).userId = OtherUser
    /\ getMethod(storage, 4) = Undefined

Protocols == storage.protocols

\* methodIds is missing, not an array, or an empty array
BadMethodIds(req) ==
    IF req.methodIds.type # "array" THEN TRUE ELSE req.methodIds.items = <<>>

\* title or format is missing
BadTitleOrFormat(req) ==
    \/ req.title \in {JsUndefined, JsString(<<>>)}
    \/ req.format \in {JsUndefined, JsString(<<>>)}

Answered == export.status # 0

\* every method handed to generateProtocolContent is a record of storage
GeneratedFromStorage ==
    \A i \in 1..Len(export.generated) :
        \E j \in 1..Len(storage.methods) : storage.methods[j] = export.generated[i]

====
